---------------------------- MODULE Spec2Model ----------------------------
(***************************************************************************)
(* Book Discovery App (src/book_search_app.py): the BookSearchApp window,  *)
(* its three tabs (Book Search, Book Details, Recommendations), the two    *)
(* tables, the query input and the detail labels, with one action per      *)
(* slot that a widget signal is connected to.                              *)
(*                                                                         *)
(* Text is kept as TLA+ strings; Len, SubSeq and \o give the characters,   *)
(* so lower-casing, trimming and substring search are computed character   *)
(* by character as Python's str.lower, str.strip and `in` compute them.    *)
(***************************************************************************)
EXTENDS Integers, Sequences, FiniteSets, TLC

\* ------------------------------------------------------------------ bounds

\* Longest query typed from QueryAlphabet in the engine specification.
MaxQueryLen == 3

\* ------------------------------------------------------- Python str helpers

CharAt(s, i) == SubSeq(s, i, i)

UpperChars == "ABCDEFGHIJKLMNOPQRSTUVWXYZ"
LowerChars == "abcdefghijklmnopqrstuvwxyz"

\* str.lower() on one character: a cased letter maps to its lower-case
\* letter, every other character (digit, space, punctuation, a letter that
\* is already lower-case) is unchanged.
lower_char(c) ==
    IF \E i \in 1..Len(UpperChars) : CharAt(UpperChars, i) = c
    THEN CharAt(LowerChars, CHOOSE i \in 1..Len(UpperChars) : CharAt(UpperChars, i) = c)
    ELSE c

RECURSIVE py_lower(_)
py_lower(s) ==
    IF Len(s) = 0 THEN ""
    ELSE lower_char(CharAt(s, 1)) \o py_lower(SubSeq(s, 2, Len(s)))

Whitespace == {" ", "\t", "\n"}

RECURSIVE py_lstrip(_)
py_lstrip(s) ==
    IF Len(s) > 0 /\ CharAt(s, 1) \in Whitespace
    THEN py_lstrip(SubSeq(s, 2, Len(s)))
    ELSE s

RECURSIVE py_rstrip(_)
py_rstrip(s) ==
    IF Len(s) > 0 /\ CharAt(s, Len(s)) \in Whitespace
    THEN py_rstrip(SubSeq(s, 1, Len(s) - 1))
    ELSE s

\* str.strip(): leading and trailing whitespace removed.
py_strip(s) == py_rstrip(py_lstrip(s))

\* Python `sub in s` on strings: sub occurs in s as a contiguous run of
\* characters; the empty string occurs in every string.
py_in(sub, s) ==
    \/ Len(sub) = 0
    \/ \E i \in 1..(Len(s) - Len(sub) + 1) : SubSeq(s, i, i + Len(sub) - 1) = sub

\* ---------------------------------------------------------- data literals

\* fetch_recommendations: the book database literal, records of
\* <<title, author, genre, description>> (Python book[0..3] are book[1..4] here).
all_books_rec ==
    << <<"The Great Gatsby", "F. Scott Fitzgerald", "Classic Literature", "A novel about the decadence of the Jazz Age.">>,
       <<"1984", "George Orwell", "Dystopian Fiction", "A dark, satirical novel about totalitarian surveillance.">>,
       <<"Pride and Prejudice", "Jane Austen", "Romance", "A witty exploration of love and marriage in early 19th-century England.">>,
       <<"The Hobbit", "J.R.R. Tolkien", "Fantasy", "An epic adventure of a hobbit's journey through Middle-earth.">>,
       <<"Dune", "Frank Herbert", "Science Fiction", "A complex narrative of politics, religion, and ecology on a desert planet.">>,
       <<"To Kill a Mockingbird", "Harper Lee", "Classic Literature", "A powerful story of racial injustice and moral growth.">>,
       <<"The Catcher in the Rye", "J.D. Salinger", "Classic Literature", "A novel about teenage alienation and angst.">>,
       <<"The Lord of the Rings", "J.R.R. Tolkien", "Fantasy", "An epic high-fantasy trilogy about the struggle against evil.">>,
       <<"Brave New World", "Aldous Huxley", "Dystopian Fiction", "A novel exploring a technologically advanced, but emotionally sterile society.">>,
       <<"Jane Eyre", "Charlotte Brontë", "Gothic Fiction", "A novel following the emotions and experiences of its eponymous heroine.">>,
       <<"The Chronicles of Narnia", "C.S. Lewis", "Fantasy", "A series of seven fantasy novels about adventures in the magical land of Narnia.">>,
       <<"Foundation", "Isaac Asimov", "Science Fiction", "A science fiction saga about the fall and rebirth of a galactic civilization.">>,
       <<"Fahrenheit 451", "Ray Bradbury", "Dystopian Fiction", "A novel about a future where books are outlawed and burned.">>,
       <<"Little Women", "Louisa May Alcott", "Classic Literature", "A novel about the lives of four sisters during the American Civil War.">>,
       <<"The Handmaid's Tale", "Margaret Atwood", "Dystopian Fiction", "A dystopian novel about women's rights and reproductive freedom.">> >>

\* search_books: the literal the search path filters, <<title, author, genre>>.
all_books_search ==
    << <<"The Great Gatsby", "F. Scott Fitzgerald", "Classic Literature">>,
       <<"1984", "George Orwell", "Dystopian Fiction">>,
       <<"Pride and Prejudice", "Jane Austen", "Romance">>,
       <<"The Hobbit", "J.R.R. Tolkien", "Fantasy">>,
       <<"Dune", "Frank Herbert", "Science Fiction">>,
       <<"To Kill a Mockingbird", "Harper Lee", "Classic Literature">>,
       <<"The Catcher in the Rye", "J.D. Salinger", "Classic Literature">>,
       <<"The Lord of the Rings", "J.R.R. Tolkien", "Fantasy">>,
       <<"Brave New World", "Aldous Huxley", "Dystopian Fiction">>,
       <<"Jane Eyre", "Charlotte Brontë", "Gothic Fiction">>,
       <<"The Chronicles of Narnia", "C.S. Lewis", "Fantasy">>,
       <<"Foundation", "Isaac Asimov", "Science Fiction">>,
       <<"Fahrenheit 451", "Ray Bradbury", "Dystopian Fiction">>,
       <<"Little Women", "Louisa May Alcott", "Classic Literature">>,
       <<"The Handmaid's Tale", "Margaret Atwood", "Dystopian Fiction">> >>

\* Variant of all_books_show: The Hobbit and The Lord of the Rings listed
\* in the other order.
all_books_show_reordered ==
    [k \in 1..Len(all_books_search) |->
        IF k = 4 THEN all_books_search[8]
        ELSE IF k = 8 THEN all_books_search[4]
        ELSE all_books_search[k]]

\* show_all_books: the literal shown for an empty query and at start-up.
all_books_show ==
    << <<"The Great Gatsby", "F. Scott Fitzgerald", "Classic Literature">>,
       <<"1984", "George Orwell", "Dystopian Fiction">>,
       <<"Pride and Prejudice", "Jane Austen", "Romance">>,
       <<"The Hobbit", "J.R.R. Tolkien", "Fantasy">>,
       <<"Dune", "Frank Herbert", "Science Fiction">>,
       <<"To Kill a Mockingbird", "Harper Lee", "Classic Literature">>,
       <<"The Catcher in the Rye", "J.D. Salinger", "Classic Literature">>,
       <<"The Lord of the Rings", "J.R.R. Tolkien", "Fantasy">>,
       <<"Brave New World", "Aldous Huxley", "Dystopian Fiction">>,
       <<"Jane Eyre", "Charlotte Brontë", "Gothic Fiction">>,
       <<"The Chronicles of Narnia", "C.S. Lewis", "Fantasy">>,
       <<"Foundation", "Isaac Asimov", "Science Fiction">>,
       <<"Fahrenheit 451", "Ray Bradbury", "Dystopian Fiction">>,
       <<"Little Women", "Louisa May Alcott", "Classic Literature">>,
       <<"The Handmaid's Tale", "Margaret Atwood", "Dystopian Fiction">> >>

\* view_book_details: the descriptions dictionary, as <<key, text>> pairs in
\* source order (the keys are distinct).
descriptions ==
    << <<"The Great Gatsby",
          "Set in the summer of 1922 on Long Island, New York, this timeless story follows the mysterious millionaire Jay Gatsby and his obsession with the beautiful Daisy Buchanan. Considered F. Scott Fitzgerald's magnum opus, The Great Gatsby explores themes of decadence, idealism, social upheaval, and excess, creating a portrait of the Jazz Age that has been described as a cautionary tale regarding the American Dream.">>,
       <<"1984",
          "A dystopian social science fiction novel that follows Winston Smith, a disillusioned citizen who dreams of rebellion against the totalitarian government of Oceania. Written in 1949, Orwell's masterpiece presents a haunting vision of a future marked by perpetual war, omnipresent surveillance, and the manipulation of history and language.">>,
       <<"Pride and Prejudice",
          "A romantic novel following the emotional development of Elizabeth Bennet, who learns the error of making hasty judgments and comes to appreciate the difference between superficial goodness and actual goodness. Set in early 19th-century England, the novel explores themes of love, marriage, social class, and character.">>,
       <<"The Hobbit",
          "A fantasy novel that follows the quest of home-loving hobbit Bilbo Baggins to win a share of the treasure guarded by Smaug the dragon. His journey takes him from light-hearted beginnings in the Shire to more sinister experiences. A precursor to The Lord of the Rings, this beloved classic has enchanted readers for generations.">>,
       <<"Dune",
          "Set in the distant future amidst a feudal interstellar society, Dune tells the story of young Paul Atreides, whose family accepts stewardship of the planet Arrakis. The only source of the most valuable substance in the universe, 'the spice', Arrakis is also one of the most dangerous planets. A stunning blend of adventure and mysticism, environmentalism and politics.">> >>

\* dict.get default in view_book_details.
NoDescription == "No detailed description available for this book."

\* QLabel text of book_title_label set in setup_book_details_tab.
InitialTitle == "Select a book to view details"

\* Text of the single item of the row search_books adds when nothing matched.
NoResultsMessage == "No matching books found"

\* genre_recommendations[:5]
MaxRecommendations == 5

\* ---------------------------------------------------------------- engine

\* Variant of search_query: the .strip() call left out.
search_query_no_strip(text) == py_lower(text)

\* Variant of search_query: .lower() dropped, the text only trimmed.
search_query_no_lower(text) == py_strip(text)

\* search_books line 428: the text of the input, lower-cased then stripped.
search_query(text) == py_strip(py_lower(text))

\* Variant of book_matches: the genre test left out.
book_matches_no_genre(sq, book) ==
    \/ py_in(sq, py_lower(book[1]))
    \/ py_in(sq, py_lower(book[2]))

\* The condition of the filter loop of search_books, book = <<title, author, genre>>.
book_matches(sq, book) ==
    \/ py_in(sq, py_lower(book[1]))
    \/ py_in(sq, py_lower(book[2]))
    \/ py_in(sq, py_lower(book[3]))

\* The filter loop of search_books: walks all_books in order and appends
\* each matching book.
RECURSIVE filter_loop(_, _, _)
filter_loop(sq, books, acc) ==
    IF books = <<>> THEN acc
    ELSE filter_loop(sq, Tail(books),
                     IF book_matches(sq, Head(books)) THEN Append(acc, Head(books)) ELSE acc)

matching_books(sq) == filter_loop(sq, all_books_search, <<>>)

\* What search_books puts in the results table as book rows: every book of
\* show_all_books for an empty search_query, the matching books otherwise.
search(text) ==
    IF search_query(text) = "" THEN all_books_show
    ELSE matching_books(search_query(text))

\* Variant of genre_loop: the `book[0] != current_title` test left out.
RECURSIVE genre_loop_no_exclusion(_, _, _, _)
genre_loop_no_exclusion(current_title, current_genre, books, acc) ==
    IF books = <<>> THEN acc
    ELSE genre_loop_no_exclusion(current_title, current_genre, Tail(books),
                                 IF Head(books)[3] = current_genre
                                 THEN Append(acc, Head(books)) ELSE acc)

\* The list comprehension of fetch_recommendations.
RECURSIVE genre_loop(_, _, _, _)
genre_loop(current_title, current_genre, books, acc) ==
    IF books = <<>> THEN acc
    ELSE genre_loop(current_title, current_genre, Tail(books),
                    IF Head(books)[3] = current_genre /\ Head(books)[1] # current_title
                    THEN Append(acc, Head(books)) ELSE acc)

genre_recommendations(current_title, current_genre) ==
    genre_loop(current_title, current_genre, all_books_rec, <<>>)

\* Python seq[:n]
Slice(seq, n) == SubSeq(seq, 1, IF Len(seq) < n THEN Len(seq) ELSE n)

\* Variant of recommend: the slice taken as [:2].
recommend_first_two(current_title, current_genre) ==
    IF genre_recommendations(current_title, current_genre) = <<>> THEN <<>>
    ELSE Slice(genre_recommendations(current_title, current_genre), 2)

\* The books fetch_recommendations shows: none when no book qualifies
\* (show_default_recommendations leaves the table empty), the first five
\* qualifying books otherwise.
recommend(current_title, current_genre) ==
    IF genre_recommendations(current_title, current_genre) = <<>> THEN <<>>
    ELSE Slice(genre_recommendations(current_title, current_genre), MaxRecommendations)

\* descriptions.get(title, default): exact key comparison.
describe(title) ==
    IF \E i \in 1..Len(descriptions) : descriptions[i][1] = title
    THEN descriptions[CHOOSE i \in 1..Len(descriptions) : descriptions[i][1] = title][2]
    ELSE NoDescription

\* ------------------------------------------------------------ Qt tables

\* A table row: three cells, each <<>> (no QTableWidgetItem) or <<text>>,
\* and the number of columns the cell of column 1 spans (setSpan; 1 = none).
book_row(book) ==
    [cells |-> << <<book[1]>>, <<book[2]>>, <<book[3]>> >>, span |-> 1]

\* Variant of no_results_row: the setSpan call left out.
no_results_row_without_span ==
    [cells |-> << <<>>, <<NoResultsMessage>>, <<>> >>, span |-> 1]

\* The row search_books inserts when rowCount() is 0 after the filter: one
\* item, in the middle column, and setSpan(row, 0, 1, 3).
no_results_row ==
    [cells |-> << <<>>, <<NoResultsMessage>>, <<>> >>, span |-> 3]

\* One insertRow/setItem per book, first three fields only (book[:3]).
RECURSIVE populate(_)
populate(books) ==
    IF books = <<>> THEN <<>>
    ELSE <<book_row(Head(books))>> \o populate(Tail(books))

\* QTableView::isIndexHidden for a cell of a row: a cell covered by a span
\* that starts in another column is hidden.
isIndexHidden(row, col) == col > 1 /\ col <= row.span

\* QTableWidget::selectedItems() with SelectRows/SingleSelection: the items
\* of the selected row in column order, skipping cells that hold no item
\* and cells that are hidden; sel = 0 is no selection.
RECURSIVE row_items(_, _)
row_items(row, col) ==
    IF col > 3 THEN <<>>
    ELSE (IF row.cells[col] # <<>> /\ ~isIndexHidden(row, col)
          THEN row.cells[col] ELSE <<>>) \o row_items(row, col + 1)

selectedItems(table, sel) ==
    IF sel = 0 THEN <<>> ELSE row_items(table[sel], 1)

\* The results table after show_all_books.
show_all_books_rows == populate(all_books_show)

\* The results table after search_books ran on the given input text.
search_books_rows(text) ==
    IF search_query(text) = "" THEN show_all_books_rows
    ELSE IF populate(matching_books(search_query(text))) = <<>>
         THEN <<no_results_row>>
         ELSE populate(matching_books(search_query(text)))

\* The recommendations table after fetch_recommendations.
fetch_recommendations_rows(current_title, current_genre) ==
    populate(recommend(current_title, current_genre))

\* ------------------------------------------------------------------ state

VARIABLES
    search_input,            \* text of the QLineEdit
    results_table,           \* rows of results_table
    results_sel,             \* selected row of results_table, 0 = none
    recommendations_table,   \* rows of recommendations_table
    recommendations_sel,     \* selected row of recommendations_table, 0 = none
    tab,                     \* tab_widget.currentIndex(): 0 search, 1 details, 2 recommendations
    book_title_label,
    book_author_label,
    book_genre_label,
    book_description,
    raised,                  \* a slot raised an exception
    last,                    \* the slot that ran last ("init" after construction)
    ref,                     \* <<title, genre>> read by the latest fetch_recommendations, <<>> before
    again,                   \* the last two slots were search_books, on the same input text
    call,                    \* engine specification: the call to make, <<"none">> in the window
    ret                      \* engine specification: <<result>> once the call returned, <<>> before

gui_vars == <<search_input, results_table, results_sel, recommendations_table,
              recommendations_sel, tab, book_title_label, book_author_label,
              book_genre_label, book_description, raised, last, ref, again>>

engine_vars == <<call, ret>>

vars == <<search_input, results_table, results_sel, recommendations_table,
          recommendations_sel, tab, book_title_label, book_author_label,
          book_genre_label, book_description, raised, last, ref, again, call, ret>>

detail_vars == <<book_title_label, book_author_label, book_genre_label, book_description>>

\* Texts the user puts in the query input of the window.
GuiQueries == {"", "tolkien", " DUNE ", "zzz-no-match"}

\* Characters typed in the engine specification, and whole queries besides.
QueryAlphabet == {"d", "D", "u", "n", "e", " "}

ScenarioQueries ==
    {"tolkien", "DUNE", "dune", " Dune ", "zzz-no-match", "jazz age",
     "Fiction", "J.R.R.", "an epic", "1984"}

RECURSIVE StringsUpTo(_)
StringsUpTo(n) ==
    IF n = 0 THEN {""}
    ELSE StringsUpTo(n - 1) \cup
         {p \o c : p \in {s \in StringsUpTo(n - 1) : Len(s) = n - 1}, c \in QueryAlphabet}

EngineQueries == StringsUpTo(MaxQueryLen) \cup ScenarioQueries

CatalogTitles == {all_books_rec[i][1] : i \in 1..Len(all_books_rec)}
CatalogGenres == {all_books_rec[i][3] : i \in 1..Len(all_books_rec)}

RefTitles == CatalogTitles \cup {InitialTitle, "dune", "DUNE", "Unknown Title", "1984 ", ""}
RefGenres == CatalogGenres \cup {"", "fantasy", "Fiction", "Science Fiction "}

\* search_books_rows on every text of GuiQueries, evaluated once.
search_books_table == [text \in GuiQueries |-> search_books_rows(text)]

\* ------------------------------------------------------------------- init

\* Variant of Init: the closing show_all_books() call left out.
InitWithoutShowAll ==
    /\ search_input = ""
    /\ results_table = <<>>
    /\ results_sel = 0
    /\ recommendations_table = <<>>
    /\ recommendations_sel = 0
    /\ tab = 0
    /\ book_title_label = InitialTitle
    /\ book_author_label = ""
    /\ book_genre_label = ""
    /\ book_description = ""
    /\ raised = FALSE
    /\ last = "init"
    /\ ref = <<>>
    /\ again = FALSE
    /\ call = <<"none">>
    /\ ret = <<>>

\* BookSearchApp.__init__: the three tabs are set up (tab 0 is current, both
\* tables empty, the labels at their constructor texts), then show_all_books.
Init ==
    /\ search_input = ""
    /\ results_table = show_all_books_rows
    /\ results_sel = 0
    /\ recommendations_table = <<>>
    /\ recommendations_sel = 0
    /\ tab = 0
    /\ book_title_label = InitialTitle
    /\ book_author_label = ""
    /\ book_genre_label = ""
    /\ book_description = ""
    /\ raised = FALSE
    /\ last = "init"
    /\ ref = <<>>
    /\ again = FALSE
    /\ call = <<"none">>
    /\ ret = <<>>

\* ------------------------------------------------------------------ slots

\* Variant of search_books: setRowCount(0) left out, the rows found are
\* added below the rows already in the table.
search_books_without_clear(text) ==
    /\ results_table' = results_table \o search_books_table[text]
    /\ results_sel' = 0
    /\ last' = "search_books"
    /\ again' = (last = "search_books" /\ text = search_input)
    /\ UNCHANGED <<recommendations_table, recommendations_sel, tab, detail_vars, raised, ref>>

\* Variant of search_books: the recommendations table emptied as well, as
\* show_default_recommendations empties it.
search_books_clearing_recommendations(text) ==
    /\ results_table' = search_books_table[text]
    /\ results_sel' = 0
    /\ recommendations_table' = <<>>
    /\ recommendations_sel' = 0
    /\ last' = "search_books"
    /\ again' = (last = "search_books" /\ text = search_input)
    /\ UNCHANGED <<tab, detail_vars, raised, ref>>

\* search_books with `text` the text of search_input: setRowCount(0) drops
\* the rows and with them the selection, then the table is filled again.
search_books(text) ==
    /\ results_table' = search_books_table[text]
    /\ results_sel' = 0
    /\ last' = "search_books"
    /\ again' = (last = "search_books" /\ text = search_input)
    /\ UNCHANGED <<recommendations_table, recommendations_sel, tab, detail_vars, raised, ref>>

\* Variant of active_selected_items: the results table read on every tab.
active_selected_items_results_only(rsel, csel) ==
    selectedItems(results_table, rsel)

\* Lines 503-506 of view_book_details: the selected items of the table of
\* the current tab, given the selected row of each table.
active_selected_items(rsel, csel) ==
    IF tab = 0 THEN selectedItems(results_table, rsel)
    ELSE selectedItems(recommendations_table, csel)

\* Variant of view_book_details: setCurrentIndex(1) moved above the
\* `if not selected_items` test.
view_book_details_switch_first(selected_items) ==
    /\ last' = "view_book_details"
    /\ again' = FALSE
    /\ UNCHANGED <<search_input, results_table, recommendations_table, ref>>
    /\ tab' = 1
    /\ IF selected_items = <<>>
       THEN UNCHANGED <<detail_vars, raised>>
       ELSE IF Len(selected_items) < 3
       THEN raised' = TRUE /\ UNCHANGED detail_vars
       ELSE /\ book_title_label' = selected_items[1]
            /\ book_author_label' = selected_items[2]
            /\ book_genre_label' = selected_items[3]
            /\ book_description' = describe(selected_items[1])
            /\ UNCHANGED raised

\* Variant of view_book_details: book_author_label.setText left out.
view_book_details_keep_author(selected_items) ==
    /\ last' = "view_book_details"
    /\ again' = FALSE
    /\ UNCHANGED <<search_input, results_table, recommendations_table, ref>>
    /\ IF selected_items = <<>>
       THEN UNCHANGED <<tab, detail_vars, raised>>
       ELSE IF Len(selected_items) < 3
       THEN raised' = TRUE /\ UNCHANGED <<tab, detail_vars>>
       ELSE /\ tab' = 1
            /\ book_title_label' = selected_items[1]
            /\ book_genre_label' = selected_items[3]
            /\ book_description' = describe(selected_items[1])
            /\ UNCHANGED <<book_author_label, raised>>

\* view_book_details from line 508 on, selected_items as read above.
\* selected_items[1] and [2] raise IndexError on a list of fewer than three.
view_book_details(selected_items) ==
    /\ last' = "view_book_details"
    /\ again' = FALSE
    /\ UNCHANGED <<search_input, results_table, recommendations_table, ref>>
    /\ IF selected_items = <<>>
       THEN UNCHANGED <<tab, detail_vars, raised>>
       ELSE IF Len(selected_items) < 3
       THEN raised' = TRUE /\ UNCHANGED <<tab, detail_vars>>
       ELSE /\ tab' = 1
            /\ book_title_label' = selected_items[1]
            /\ book_author_label' = selected_items[2]
            /\ book_genre_label' = selected_items[3]
            /\ book_description' = describe(selected_items[1])
            /\ UNCHANGED raised

\* Variant of fetch_recommendations: setRowCount(0) left out on the path that
\* finds no recommendation, so the rows of the previous fetch stay.
fetch_recommendations_keep_stale ==
    /\ recommendations_table' =
           IF genre_recommendations(book_title_label, book_genre_label) = <<>>
           THEN recommendations_table
           ELSE fetch_recommendations_rows(book_title_label, book_genre_label)
    /\ recommendations_sel' = 0
    /\ tab' = IF genre_recommendations(book_title_label, book_genre_label) = <<>> THEN tab ELSE 2
    /\ ref' = <<book_title_label, book_genre_label>>
    /\ last' = "fetch_recommendations"
    /\ again' = FALSE
    /\ UNCHANGED <<search_input, results_table, results_sel, detail_vars, raised>>

\* fetch_recommendations: reads the two labels, empties the table, fills it;
\* the early return of the no-recommendation branch skips setCurrentIndex(2).
fetch_recommendations ==
    /\ recommendations_table' = fetch_recommendations_rows(book_title_label, book_genre_label)
    /\ recommendations_sel' = 0
    /\ tab' = IF genre_recommendations(book_title_label, book_genre_label) = <<>> THEN tab ELSE 2
    /\ ref' = <<book_title_label, book_genre_label>>
    /\ last' = "fetch_recommendations"
    /\ again' = FALSE
    /\ UNCHANGED <<search_input, results_table, results_sel, detail_vars, raised>>

\* Variant of return_to_book_search: show_all_books() called on the way back.
return_to_book_search_refresh ==
    /\ tab' = 0
    /\ results_table' = show_all_books_rows
    /\ results_sel' = 0
    /\ last' = "return_to_book_search"
    /\ again' = FALSE
    /\ UNCHANGED <<search_input, recommendations_table,
                   recommendations_sel, detail_vars, raised, ref>>

\* return_to_book_search: setCurrentIndex(0).
return_to_book_search ==
    /\ tab' = 0
    /\ last' = "return_to_book_search"
    /\ again' = FALSE
    /\ UNCHANGED <<search_input, results_table, results_sel, recommendations_table,
                   recommendations_sel, detail_vars, raised, ref>>

\* update_see_details_button, run on every itemSelectionChanged of the
\* recommendations table: the button is enabled iff there are selected items.
see_details_enabled == selectedItems(recommendations_table, recommendations_sel) # <<>>

\* A cell of the row shows an item (itemDoubleClicked is emitted for items only).
row_has_visible_item(row) ==
    \E col \in 1..3 : row.cells[col] # <<>> /\ ~isIndexHidden(row, col)

\* ------------------------------------------------------- user operations

\* Variant of EditQuery: textChanged not connected to search_books.
EditQueryWithoutSearch(text) ==
    /\ ~raised /\ tab = 0
    /\ text # search_input
    /\ search_input' = text
    /\ last' = "edit"
    /\ again' = FALSE
    /\ UNCHANGED <<results_table, results_sel, recommendations_table, recommendations_sel,
                   tab, detail_vars, raised, ref, engine_vars>>

\* The user changes the text of the input: textChanged -> search_books.
EditQuery(text) ==
    /\ ~raised /\ tab = 0
    /\ text # search_input
    /\ search_input' = text
    /\ search_books(text)
    /\ UNCHANGED engine_vars

\* The Search button: clicked -> search_books.
ClickSearch ==
    /\ ~raised /\ tab = 0
    /\ UNCHANGED search_input
    /\ search_books(search_input)
    /\ UNCHANGED engine_vars

\* The user clicks a row of the results table (SelectRows, SingleSelection).
SelectResultsRow(r) ==
    /\ ~raised /\ tab = 0
    /\ r # results_sel
    /\ results_sel' = r
    /\ last' = "select"
    /\ again' = FALSE
    /\ UNCHANGED <<search_input, results_table, recommendations_table, recommendations_sel,
                   tab, detail_vars, raised, ref, engine_vars>>

SelectRecommendationsRow(r) ==
    /\ ~raised /\ tab = 2
    /\ r # recommendations_sel
    /\ recommendations_sel' = r
    /\ last' = "select"
    /\ again' = FALSE
    /\ UNCHANGED <<search_input, results_table, results_sel, recommendations_table,
                   tab, detail_vars, raised, ref, engine_vars>>

\* The View Details button of the search tab.
ClickViewDetails ==
    /\ ~raised /\ tab = 0
    /\ view_book_details(active_selected_items(results_sel, recommendations_sel))
    /\ UNCHANGED <<results_sel, recommendations_sel, engine_vars>>

\* Double click on an item of the results table: the row is selected by the
\* press, then itemDoubleClicked -> show_selected_search_book_details.
DoubleClickResults(r) ==
    /\ ~raised /\ tab = 0
    /\ row_has_visible_item(results_table[r])
    /\ results_sel' = r
    /\ view_book_details(active_selected_items(r, recommendations_sel))
    /\ UNCHANGED <<recommendations_sel, engine_vars>>

\* The See Book Details button of the recommendations tab.
ClickSeeDetails ==
    /\ ~raised /\ tab = 2
    /\ see_details_enabled
    /\ view_book_details(active_selected_items(results_sel, recommendations_sel))
    /\ UNCHANGED <<results_sel, recommendations_sel, engine_vars>>

DoubleClickRecommendations(r) ==
    /\ ~raised /\ tab = 2
    /\ row_has_visible_item(recommendations_table[r])
    /\ recommendations_sel' = r
    /\ view_book_details(active_selected_items(results_sel, r))
    /\ UNCHANGED <<results_sel, engine_vars>>

\* The Get Recommendations button of the details tab.
ClickGetRecommendations ==
    /\ ~raised /\ tab = 1
    /\ fetch_recommendations
    /\ UNCHANGED engine_vars

\* The Back to Search button of the details tab and of the recommendations tab.
ClickBack ==
    /\ ~raised /\ tab \in {1, 2}
    /\ return_to_book_search
    /\ UNCHANGED engine_vars

\* The user clicks another tab of the tab bar (handle_tab_change is not
\* connected and does nothing).
TabClicked(i) ==
    /\ ~raised
    /\ i # tab
    /\ tab' = i
    /\ last' = "tab"
    /\ again' = FALSE
    /\ UNCHANGED <<search_input, results_table, results_sel, recommendations_table,
                   recommendations_sel, detail_vars, raised, ref, engine_vars>>

Next ==
    \/ \E text \in GuiQueries : EditQuery(text)
    \/ ClickSearch
    \/ \E r \in 1..Len(results_table) : SelectResultsRow(r)
    \/ \E r \in 1..Len(recommendations_table) : SelectRecommendationsRow(r)
    \/ ClickViewDetails
    \/ \E r \in 1..Len(results_table) : DoubleClickResults(r)
    \/ ClickSeeDetails
    \/ \E r \in 1..Len(recommendations_table) : DoubleClickRecommendations(r)
    \/ ClickGetRecommendations
    \/ ClickBack
    \/ \E i \in 0..2 : TabClicked(i)

Spec == Init /\ [][Next]_vars

\* ------------------------------------------------- engine specification

\* The three questions the window asks of its data, each asked once of an
\* input drawn from a bounded set; the window itself stays as constructed.
EngineCalls ==
    {<<"search", q>> : q \in EngineQueries}
    \cup {<<"recommend", t, g>> : t \in RefTitles, g \in RefGenres}
    \cup {<<"describe", t>> : t \in RefTitles}

EngineInit ==
    /\ search_input = ""
    /\ results_table = show_all_books_rows
    /\ results_sel = 0
    /\ recommendations_table = <<>>
    /\ recommendations_sel = 0
    /\ tab = 0
    /\ book_title_label = InitialTitle
    /\ book_author_label = ""
    /\ book_genre_label = ""
    /\ book_description = ""
    /\ raised = FALSE
    /\ last = "init"
    /\ ref = <<>>
    /\ again = FALSE
    /\ call \in EngineCalls
    /\ ret = <<>>

CallSearch ==
    /\ call[1] = "search" /\ ret = <<>>
    /\ ret' = <<search(call[2])>>
    /\ UNCHANGED <<call, gui_vars>>

CallRecommend ==
    /\ call[1] = "recommend" /\ ret = <<>>
    /\ ret' = <<recommend(call[2], call[3])>>
    /\ UNCHANGED <<call, gui_vars>>

CallDescribe ==
    /\ call[1] = "describe" /\ ret = <<>>
    /\ ret' = <<describe(call[2])>>
    /\ UNCHANGED <<call, gui_vars>>

EngineNext ==
    \/ CallSearch
    \/ CallRecommend
    \/ CallDescribe

EngineSpec == EngineInit /\ [][EngineNext]_vars

\* ----------------------------------------------------------------- claims

\* The k-th smallest member of a set of indices, and a sequence restricted
\* to a set of its indices, order kept.
KthSmallest(S, k) == CHOOSE i \in S : Cardinality({j \in S : j < i}) = k - 1

Restriction(seq, Idx) == [k \in 1..Cardinality(Idx) |-> seq[KthSmallest(Idx, k)]]

\* sub is s[i+1..j] for some cut points i <= j.
Occurs(sub, s) ==
    \E i \in 0..Len(s) : \E j \in i..Len(s) : SubSeq(s, i + 1, j) = sub

\* all() of the specification: the catalog in its fixed order.
Catalog == all_books_show

SearchReturned == call[1] = "search" /\ ret # <<>>
RecommendReturned == call[1] = "recommend" /\ ret # <<>>
DescribeReturned == call[1] = "describe" /\ ret # <<>>

\* C1: for a query that is not blank after trimming, search returns exactly
\* the catalog records whose lower-cased title, author or genre contains the
\* trimmed, lower-cased query, in catalog order, all of them.
C1_SearchIsTheMatchingSubsequence ==
    (SearchReturned /\ py_strip(call[2]) # "") =>
        LET q == py_lower(py_strip(call[2]))
            Idx == {i \in 1..Len(Catalog) :
                       \/ Occurs(q, py_lower(Catalog[i][1]))
                       \/ Occurs(q, py_lower(Catalog[i][2]))
                       \/ Occurs(q, py_lower(Catalog[i][3]))}
        IN  ret[1] = Restriction(Catalog, Idx)

\* C1 witness: search("tolkien") returned The Hobbit, then The Lord of the Rings.
C1_Witness ==
    /\ call = <<"search", "tolkien">>
    /\ ret = << << <<"The Hobbit", "J.R.R. Tolkien", "Fantasy">>,
                   <<"The Lord of the Rings", "J.R.R. Tolkien", "Fantasy">> >> >>

\* C2: for an empty or whitespace-only query search returns all(), which is
\* also the sequence the search path filters.
C2_BlankQueryReturnsAll ==
    (SearchReturned /\ py_strip(call[2]) = "") =>
        /\ ret[1] = Catalog
        /\ ret[1] = all_books_search

\* C2 witness: search of two spaces returned the fifteen records.
C2_Witness ==
    /\ call = <<"search", "  ">>
    /\ ret # <<>>
    /\ Len(ret[1]) = 15
    /\ ret[1][1][1] = "The Great Gatsby"
    /\ ret[1][15][1] = "The Handmaid's Tale"

\* C3: recommend(t, g) returns the first 5 (or all, if fewer) catalog records,
\* in catalog order, whose genre is exactly g and whose title is not t.
C3_RecommendIsFirstFiveOfGenre ==
    RecommendReturned =>
        LET t == call[2]
            g == call[3]
            Idx == {i \in 1..Len(Catalog) : Catalog[i][3] = g /\ Catalog[i][1] # t}
            First == {i \in Idx : Cardinality({j \in Idx : j < i}) < 5}
            shown == [k \in 1..Len(ret[1]) |-> SubSeq(ret[1][k], 1, 3)]
        IN  shown = Restriction(Catalog, First)

\* C3 witness: recommend("Dune", "Science Fiction") returned Foundation alone.
C3_Witness ==
    /\ call = <<"recommend", "Dune", "Science Fiction">>
    /\ ret # <<>>
    /\ Len(ret[1]) = 1
    /\ ret[1][1][1] = "Foundation"

\* C7 (as claimed): describe(title) is the placeholder exactly when no
\* catalog record has that title and a description, and for a catalog record
\* with a description it is that record's description.
C7_DescribeReturnsRecordDescription ==
    DescribeReturned =>
        LET t == call[2]
            Recs == {i \in 1..Len(all_books_rec) :
                        all_books_rec[i][1] = t /\ all_books_rec[i][4] # ""}
        IN  /\ (ret[1] = NoDescription) <=> (Recs = {})
            /\ \A i \in Recs : ret[1] = all_books_rec[i][4]

\* A row whose three cells all hold an item, and the texts of such a row.
IsBookRow(row) == \A col \in 1..3 : row.cells[col] # <<>>

RowTexts(row) == <<row.cells[1][1], row.cells[2][1], row.cells[3][1]>>

\* The book rows of a table, as <<title, author, genre>>, in table order.
BookRows(table) ==
    LET Idx == {k \in 1..Len(table) : IsBookRow(table[k])}
    IN  [k \in 1..Cardinality(Idx) |-> RowTexts(table[KthSmallest(Idx, k)])]

\* The first three fields of each record of a list of books.
FirstThree(books) == [k \in 1..Len(books) |-> SubSeq(books[k], 1, 3)]

\* The row of the table of the current tab that is selected when
\* view_book_details reads the selection in this step (0 rows: none).
ViewStep == last' = "view_book_details"

ViewedTable == IF tab = 0 THEN results_table ELSE recommendations_table

ViewedSel == IF tab = 0 THEN results_sel' ELSE recommendations_sel'

FetchStep == last' = "fetch_recommendations"

\* C4 (as claimed): a fetch_recommendations invoked on the details tab while
\* it shows a book ends on the recommendations tab with the table holding
\* recommend(title, genre) of that book.
C4_FetchSwitchesToRecommendations ==
    [][(FetchStep /\ tab = 1 /\ book_title_label # InitialTitle) =>
          /\ tab' = 2
          /\ recommendations_table' = populate(recommend(book_title_label, book_genre_label))]_vars

\* C5: no user operation raises an exception, view-details on the row shown
\* after a search without matches included.
C5_NoOperationRaises == raised = FALSE

\* C5 witness: view-details ran on the search tab with the no-results row
\* selected, and nothing was raised.
C5_Witness ==
    /\ last = "view_book_details"
    /\ tab = 0
    /\ search_input = "zzz-no-match"
    /\ results_table = <<no_results_row>>
    /\ results_sel = 1
    /\ raised = FALSE

\* C6: view-details with no row selected in the table of the current tab
\* changes neither the current tab, nor the book of the details tab, nor
\* either table.
C6_ViewWithoutSelectionIsNoOp ==
    [][(ViewStep /\ ViewedSel = 0) =>
          UNCHANGED <<tab, book_title_label, book_author_label, book_genre_label,
                      book_description, results_table, recommendations_table, raised>>]_vars

\* C6 witness: view-details ran on the search tab with nothing selected,
\* after a book had been shown in the details tab.
C6_Witness ==
    /\ last = "view_book_details"
    /\ tab = 0
    /\ results_sel = 0
    /\ book_title_label = "Dune"

\* C8: view-details with a book row selected in the table of the current tab
\* (whatever is selected in the other table) makes the details tab current
\* and shows that row's title, author and genre with describe(title).
C8_ViewShowsSelectedRow ==
    [][(ViewStep /\ ViewedSel # 0 /\ IsBookRow(ViewedTable[ViewedSel])) =>
          /\ tab' = 1
          /\ book_title_label' = RowTexts(ViewedTable[ViewedSel])[1]
          /\ book_author_label' = RowTexts(ViewedTable[ViewedSel])[2]
          /\ book_genre_label' = RowTexts(ViewedTable[ViewedSel])[3]
          /\ book_description' = describe(RowTexts(ViewedTable[ViewedSel])[1])]_vars

\* C8 witness: view-details has just shown Foundation, the selected row of
\* the recommendations table, while the results table had Dune selected.
C8_Witness ==
    /\ last = "view_book_details"
    /\ tab = 1
    /\ book_title_label = "Foundation"
    /\ book_author_label = "Isaac Asimov"
    /\ book_description = NoDescription
    /\ recommendations_sel # 0
    /\ RowTexts(recommendations_table[recommendations_sel])[1] = "Foundation"
    /\ results_sel # 0
    /\ IsBookRow(results_table[results_sel])
    /\ RowTexts(results_table[results_sel])[1] = "Dune"

\* C9: right after construction the search tab is current, the results table
\* holds the whole catalog (search("")) in catalog order, the details tab
\* shows no book and the recommendations table is empty.
C9_InitialState ==
    (last = "init") =>
        /\ tab = 0
        /\ search_input = ""
        /\ Len(results_table) = Len(Catalog)
        /\ BookRows(results_table) = Catalog
        /\ BookRows(results_table) = search("")
        /\ book_title_label = InitialTitle
        /\ book_author_label = ""
        /\ book_genre_label = ""
        /\ book_description = ""
        /\ recommendations_table = <<>>

\* C9 witness: the state after construction, fifteen rows, Dune the fifth.
C9_Witness ==
    /\ last = "init"
    /\ Len(results_table) = 15
    /\ results_table[5] = book_row(<<"Dune", "Frank Herbert", "Science Fiction">>)

\* search on every text the input can hold, evaluated once.
search_of == [text \in GuiQueries |-> search(text)]

\* C10: in every state the book rows of the results table are search(text of
\* the input); when nothing matches the table holds no book row, only the
\* one 'No matching books found' row.
C10_ResultsTableIsSearchOfInput ==
    /\ BookRows(results_table) = FirstThree(search_of[search_input])
    /\ IF search_of[search_input] = <<>>
       THEN /\ Len(results_table) = 1
            /\ results_table[1].cells = << <<>>, <<NoResultsMessage>>, <<>> >>
       ELSE Len(results_table) = Len(search_of[search_input])

\* C10 witness: the input holds a query without matches after a query with
\* matches, and the table holds the single indicator row.
C10_Witness ==
    /\ search_input = "zzz-no-match"
    /\ last = "search_books"
    /\ Len(results_table) = 1
    /\ ~IsBookRow(results_table[1])
    /\ book_title_label = "The Hobbit"

\* C11: in every state the recommendations table is empty or holds
\* recommend(t, g) for the title t and genre g the details tab showed at the
\* latest fetch_recommendations: at most 5 rows, each of genre g, none of
\* title t.
C11_RecommendationsTableIsRecommendOfRef ==
    \/ recommendations_table = <<>>
    \/ /\ ref # <<>>
       /\ LET t == ref[1]
              g == ref[2]
              Idx == {i \in 1..Len(Catalog) : Catalog[i][3] = g /\ Catalog[i][1] # t}
              First == {i \in Idx : Cardinality({j \in Idx : j < i}) < 5}
              rows == BookRows(recommendations_table)
          IN  /\ Len(rows) = Len(recommendations_table)
              /\ rows = Restriction(Catalog, First)
              /\ Len(rows) <= 5
              /\ \A k \in 1..Len(rows) : rows[k][3] = g /\ rows[k][1] # t

\* C11 witness: the table holds the three recommendations fetched for The
\* Great Gatsby while the details tab has moved on to one of them.
C11_Witness ==
    /\ ref = <<"The Great Gatsby", "Classic Literature">>
    /\ Len(recommendations_table) = 3
    /\ RowTexts(recommendations_table[1])[1] = "To Kill a Mockingbird"
    /\ book_title_label = "To Kill a Mockingbird"
    /\ tab = 1

BackStep == last' = "return_to_book_search"

\* C12: back, from the details tab or the recommendations tab, makes the
\* search tab current and changes nothing else.
C12_BackOnlySwitchesToSearch ==
    [][BackStep =>
          /\ tab \in {1, 2}
          /\ tab' = 0
          /\ UNCHANGED <<search_input, results_table, results_sel, recommendations_table,
                         recommendations_sel, book_title_label, book_author_label,
                         book_genre_label, book_description, raised, ref>>]_vars

\* C12 witness: back has just run with a query in the input, a book in the
\* details tab and recommendations in their table.
C12_Witness ==
    /\ last = "return_to_book_search"
    /\ tab = 0
    /\ search_input = "tolkien"
    /\ Len(results_table) = 2
    /\ book_title_label = "The Lord of the Rings"
    /\ recommendations_table # <<>>

\* A text with every lower-case letter made upper-case (every other
\* character unchanged), and with every upper-case letter made lower-case.
RECURSIVE all_upper(_)
all_upper(s) ==
    IF Len(s) = 0 THEN ""
    ELSE LET c == CharAt(s, 1)
         IN  (IF \E i \in 1..Len(LowerChars) : CharAt(LowerChars, i) = c
              THEN CharAt(UpperChars, CHOOSE i \in 1..Len(LowerChars) : CharAt(LowerChars, i) = c)
              ELSE c) \o all_upper(SubSeq(s, 2, Len(s)))

RECURSIVE all_lower(_)
all_lower(s) ==
    IF Len(s) = 0 THEN ""
    ELSE LET c == CharAt(s, 1)
         IN  (IF \E i \in 1..Len(UpperChars) : CharAt(UpperChars, i) = c
              THEN CharAt(LowerChars, CHOOSE i \in 1..Len(UpperChars) : CharAt(UpperChars, i) = c)
              ELSE c) \o all_lower(SubSeq(s, 2, Len(s)))

\* C13: search is case-insensitive in the query: a query gets the same
\* records in the same order as its all-upper-case and its all-lower-case
\* spelling, hence as every query that differs from it in letter case only
\* (two such queries have the same all-lower-case spelling).
C13_SearchIgnoresQueryCase ==
    SearchReturned =>
        /\ search(all_lower(call[2])) = ret[1]
        /\ search(all_upper(call[2])) = ret[1]

\* C13 witness: search("DUNE") returned the one record of Dune, whose title
\* is spelt with lower-case letters in the catalog.
C13_Witness ==
    /\ call = <<"search", "DUNE">>
    /\ ret = << << <<"Dune", "Frank Herbert", "Science Fiction">> >> >>
    /\ all_lower(call[2]) = "dune"
    /\ all_upper(" Dune ") = " DUNE "

SearchStep == last' = "search_books"

\* C14: search is idempotent: when search_books runs a second time in a row
\* on the same text of the input, the results table holds after the second
\* run exactly the rows it held after the first, the rows of search(text).
C14_SearchTwiceSameTable ==
    [][again' =>
          /\ SearchStep /\ last = "search_books"
          /\ search_input' = search_input
          /\ results_table' = results_table
          /\ BookRows(results_table') = FirstThree(search_of[search_input])]_vars

\* C14 witness: search_books has run twice in a row on "tolkien" and the
\* table holds the two Tolkien rows once.
C14_Witness ==
    /\ again
    /\ last = "search_books"
    /\ search_input = "tolkien"
    /\ Len(results_table) = 2
    /\ RowTexts(results_table[2])[1] = "The Lord of the Rings"

\* C15: a search, from an edit of the input or from the Search button,
\* changes the results table and its selection only: the current tab, the
\* book of the details tab and the recommendations table stay as they were.
C15_SearchLeavesOtherViews ==
    [][SearchStep =>
          UNCHANGED <<tab, book_title_label, book_author_label, book_genre_label,
                      book_description, recommendations_table, recommendations_sel,
                      raised, ref>>]_vars

\* C15 witness: a search has just run while the details tab holds Dune and
\* the recommendations table holds the row fetched for it.
C15_Witness ==
    /\ last = "search_books"
    /\ tab = 0
    /\ search_input = "tolkien"
    /\ Len(results_table) = 2
    /\ book_title_label = "Dune"
    /\ ref = <<"Dune", "Science Fiction">>
    /\ Len(recommendations_table) = 1

\* The position in the catalog of a <<title, author, genre>> that is in it.
CatalogPos(rec) == CHOOSE i \in 1..Len(Catalog) : Catalog[i] = rec

\* C16: the literals of show_all_books, search_books and
\* fetch_recommendations list the same (title, author, genre) in the same
\* order, and every list recommend returns is made of catalog records in
\* their catalog order.
C16_OneCatalogInOneOrder ==
    /\ all_books_show = all_books_search
    /\ all_books_show = FirstThree(all_books_rec)
    /\ RecommendReturned =>
          LET shown == FirstThree(ret[1])
          IN  /\ \A k \in 1..Len(shown) : \E i \in 1..Len(Catalog) : Catalog[i] = shown[k]
              /\ \A k \in 1..Len(shown) : \A k2 \in 1..Len(shown) :
                    k < k2 => CatalogPos(shown[k]) < CatalogPos(shown[k2])

\* C16 witness: recommend for The Hobbit returned The Lord of the Rings
\* (catalog position 8) and then The Chronicles of Narnia (position 11).
C16_Witness ==
    /\ call = <<"recommend", "The Hobbit", "Fantasy">>
    /\ ret # <<>>
    /\ Len(ret[1]) = 2
    /\ CatalogPos(SubSeq(ret[1][1], 1, 3)) = 8
    /\ CatalogPos(SubSeq(ret[1][2], 1, 3)) = 11

\* A <<title, author, genre>> is among the records of a list of books.
Recommends(books, rec) == \E k \in 1..Len(books) : SubSeq(books[k], 1, 3) = rec

\* C18: over the catalog as shipped the cap of five drops no qualifying
\* record, and recommendation is symmetric: for two distinct catalog records
\* A and B, recommend for A holds B exactly when recommend for B holds A.
C18_RecommendationIsSymmetric ==
    (RecommendReturned /\ \E a \in 1..Len(Catalog) :
                              Catalog[a][1] = call[2] /\ Catalog[a][3] = call[3]) =>
        LET a == CHOOSE a \in 1..Len(Catalog) :
                     Catalog[a][1] = call[2] /\ Catalog[a][3] = call[3]
            Qualifying == {i \in 1..Len(Catalog) :
                              Catalog[i][3] = call[3] /\ Catalog[i][1] # call[2]}
        IN  /\ Len(ret[1]) = Cardinality(Qualifying)
            /\ \A b \in 1..Len(Catalog) :
                  b # a =>
                     (Recommends(ret[1], Catalog[b])
                         <=> Recommends(recommend(Catalog[b][1], Catalog[b][3]), Catalog[a]))

\* C18 witness: recommend for The Great Gatsby returned the three other
\* Classic Literature records, Little Women (the last of them in the
\* catalog) included, and recommend for Little Women holds The Great Gatsby.
C18_Witness ==
    /\ call = <<"recommend", "The Great Gatsby", "Classic Literature">>
    /\ ret # <<>>
    /\ Len(ret[1]) = 3
    /\ Recommends(ret[1], Catalog[14])
    /\ Catalog[14][1] = "Little Women"
    /\ Recommends(recommend("Little Women", "Classic Literature"), Catalog[1])

\* C17: the book of the details tab is always either the initial placeholder
\* (the title 'Select a book to view details', author and genre empty) or the
\* title, author and genre of one single catalog record; it is never the
\* 'No matching books found' row and never a mix of fields of two records.
C17_DetailsShowPlaceholderOrOneRecord ==
    /\ book_title_label # NoResultsMessage
    /\ \/ /\ book_title_label = InitialTitle
          /\ book_author_label = ""
          /\ book_genre_label = ""
       \/ \E i \in 1..Len(Catalog) :
             Catalog[i] = <<book_title_label, book_author_label, book_genre_label>>

\* C17 witness: view-details has just run on the selected 'No matching books
\* found' row, after The Hobbit and then its recommendation The Lord of the
\* Rings had been shown; the details tab still holds that record.
C17_Witness ==
    /\ last = "view_book_details"
    /\ tab = 0
    /\ results_table = <<no_results_row>>
    /\ results_sel = 1
    /\ book_title_label = "The Lord of the Rings"
    /\ book_author_label = "J.R.R. Tolkien"
    /\ book_genre_label = "Fantasy"
    /\ ref = <<"The Hobbit", "Fantasy">>

=============================================================================
